---- MODULE Spec2Model ----
(***************************************************************************)
(* gracehttp: graceful shutdown / restart of one HTTP server process.      *)
(* The model follows src/server.go: the main path (ListenAndServe ->       *)
(* Serve), the signal goroutine (handleSignals), the handoff               *)
(* (startNewProcess) and the shutdown (shutdownHTTPServer).  The Go        *)
(* runtime and net/http are modelled at the calls the source makes.        *)
(***************************************************************************)
EXTENDS Integers, Sequences, FiniteSets, TLC

\* ---------------------------------------------------------------- bounds
MaxEnvLen  == 1   \* entries in the process environment at start
MaxConns   == 1   \* connections accepted over the process's life
MaxSignals == 2   \* signals sent to the process
MaxAcquire == 2   \* listener acquisitions (binds, reconstructions) tried

\* ------------------------------------------------------------- constants
GRACEFUL_ENVIRON_KEY    == "IS_GRACEFUL"
GRACEFUL_ENVIRON_STRING == <<GRACEFUL_ENVIRON_KEY, "1">>   \* "IS_GRACEFUL=1"
GRACEFUL_LISTENER_FD    == 3

\* An environment entry "KEY=VALUE" is the pair <<KEY, VALUE>>.
EnvEntries ==
    { <<GRACEFUL_ENVIRON_KEY, "1">>, <<GRACEFUL_ENVIRON_KEY, "2">>,
      <<GRACEFUL_ENVIRON_KEY, "">>,  <<"PATH", "/bin">> }

RECURSIVE SeqsUpTo(_)
SeqsUpTo(n) ==
    IF n = 0 THEN { <<>> }
    ELSE LET shorter == SeqsUpTo(n - 1)
         IN  shorter \cup { Append(s, e) : s \in { t \in shorter : Len(t) = n - 1 },
                                            e \in EnvEntries }

Addrs == { "", ":8080" }

\* What descriptor slot GRACEFUL_LISTENER_FD holds when the process starts:
\* nothing usable, a TCP listening socket, or a listening socket of another
\* family (net.FileListener then returns a *net.UnixListener).  Only a
\* process in graceful mode ever looks at the slot; for the others it is
\* taken to be empty.
SlotKinds(graceful) == IF graceful THEN { "none", "tcp", "unix" } ELSE { "none" }

ShutdownSignals == { "SIGQUIT", "SIGINT" }
RestartSignals  == { "SIGHUP", "SIGTERM" }
Signals         == ShutdownSignals \cup RestartSignals

Nil == [kind |-> "nil", open |-> FALSE]

VARIABLES
    env,          \* os environment of this process (raw entries, in order)
    Addr,         \* srv.Addr
    slot,         \* descriptor slot 3 at process start
    isGraceful,   \* srv.isGraceful
    listener,     \* srv.listener: [kind, open]; Nil when unset
    tlsListener,  \* srv.tlsListener # nil
    mainPc,       \* position of the main path
    lastErr,      \* error returned by the last public call that returned
    serveErr,     \* err of Serve (result of srv.Server.Serve)
    served,       \* the listener handed to srv.Server.Serve
    binds,        \* net.Listen calls made
    reconstructs, \* net.FileListener calls made
    routerPc,     \* position of the handleSignals goroutine
    sig,          \* handleSignals' local sig
    spawnResult,  \* outcome of startNewProcess for sig
    shutCalls,    \* shutdownHTTPServer calls made for sig
    inShutdown,   \* http.Server: Shutdown has been called
    lnerr,        \* Shutdown's result from closing the listeners
    conns,        \* connections with a request in flight
    nextConn,     \* id of the next accepted connection
    published,    \* completed sends on srv.shutdownChan
    listenerFd,   \* the duplicated descriptor of startNewProcess
    envs,         \* startNewProcess' local envs
    successors,   \* processes started by startNewProcess
    arrived       \* signals sent so far

vars == << env, Addr, slot, isGraceful, listener, tlsListener, mainPc, lastErr,
           serveErr, served, binds, reconstructs, routerPc, sig, spawnResult,
           shutCalls, inShutdown, lnerr, conns, nextConn, published, listenerFd,
           envs, successors, arrived >>

mainVars   == << mainPc, lastErr, serveErr, served >>
acqVars    == << listener, tlsListener, binds, reconstructs >>
sigVars    == << sig, spawnResult, shutCalls >>
engineVars == << inShutdown, lnerr, conns, nextConn >>
spawnVars  == << listenerFd, envs, successors >>
constVars  == << env, Addr, slot, isGraceful >>

\* ------------------------------------------------------------ environment
KeyIndexes(e, key) == { i \in 1..Len(e) : e[i][1] = key }

FirstIndex(e, key) == CHOOSE i \in KeyIndexes(e, key) :
                          \A j \in KeyIndexes(e, key) : i <= j

\* os.Getenv: the value of the first entry for key, "" when there is none.
Getenv(e, key) ==
    IF KeyIndexes(e, key) = {} THEN "" ELSE e[FirstIndex(e, key)][2]

\* os.Environ: the entries in order, a repeated key keeping only its first
\* entry (the runtime clears later duplicates when it first reads the block).
RECURSIVE EnvironUpTo(_, _)
EnvironUpTo(e, n) ==
    IF n = 0 THEN <<>>
    ELSE IF FirstIndex(e, e[n][1]) = n
         THEN Append(EnvironUpTo(e, n - 1), e[n])
         ELSE EnvironUpTo(e, n - 1)

Environ(e) == EnvironUpTo(e, Len(e))

NewServerIsGraceful_ExactValue(e) == Getenv(e, GRACEFUL_ENVIRON_KEY) = "1"

\* NewServer: isGraceful
NewServerIsGraceful(e) == Getenv(e, GRACEFUL_ENVIRON_KEY) # ""

\* startNewProcess: the successor's environment
BuildEnvs(environ) ==
    Append(SelectSeq(environ, LAMBDA value : value # GRACEFUL_ENVIRON_STRING),
           GRACEFUL_ENVIRON_STRING)

\* ------------------------------------------------------------------- Init
Init ==
    /\ env \in SeqsUpTo(MaxEnvLen)
    /\ Addr \in Addrs
    /\ isGraceful = NewServerIsGraceful(env)
    /\ slot \in SlotKinds(isGraceful)
    /\ listener = Nil
    /\ tlsListener = FALSE
    /\ mainPc = "idle"
    /\ lastErr = "none"
    /\ serveErr = "none"
    /\ served = "none"
    /\ binds = 0
    /\ reconstructs = 0
    /\ routerPc = "none"
    /\ sig = "none"
    /\ spawnResult = "none"
    /\ shutCalls = 0
    /\ inShutdown = FALSE
    /\ lnerr = "nil"
    /\ conns = {}
    /\ nextConn = 1
    /\ published = 0
    /\ listenerFd = "none"
    /\ envs = <<>>
    /\ successors = <<>>
    /\ arrived = 0

\* ------------------------------------------------- listener acquisition
\* getNetListener: the listener or the error, and the path taken.
getNetListener(bindOk) ==
    IF isGraceful
    THEN IF slot = "none"
         THEN [ln |-> Nil, err |-> "FileListenerError", how |-> "file"]
         ELSE [ln |-> [kind |-> slot, open |-> TRUE], err |-> "nil", how |-> "file"]
    ELSE IF bindOk
         THEN [ln |-> [kind |-> "tcp", open |-> TRUE], err |-> "nil", how |-> "bind"]
         ELSE [ln |-> Nil, err |-> "ListenError", how |-> "bind"]

InitListenerResult_NoCache(bindOk) ==
    IF Addr = ""
    THEN [ln |-> Nil, err |-> "NilAddr", how |-> "none"]
    ELSE getNetListener(bindOk)

\* InitListener: result of one call in the current state.
InitListenerResult(bindOk) ==
    IF listener # Nil
    THEN [ln |-> listener, err |-> "nil", how |-> "kept"]
    ELSE IF Addr = ""
         THEN [ln |-> Nil, err |-> "NilAddr", how |-> "none"]
         ELSE getNetListener(bindOk)

\* The effect of one InitListener call on the acquisition state.
InitListenerEffect(r) ==
    /\ listener' = IF r.err = "nil" THEN r.ln ELSE listener
    /\ binds' = IF r.how = "bind" THEN binds + 1 ELSE binds
    /\ reconstructs' = IF r.how = "file" THEN reconstructs + 1 ELSE reconstructs

\* The application calls InitListener itself.
InitListener(bindOk) ==
    /\ mainPc = "idle"
    /\ binds + reconstructs < MaxAcquire
    /\ LET r == InitListenerResult(bindOk)
       IN  /\ InitListenerEffect(r)
           /\ lastErr' = r.err
    /\ UNCHANGED << tlsListener, mainPc, serveErr, served, routerPc >>
    /\ UNCHANGED << sigVars, engineVars, spawnVars, constVars, arrived,
                    published >>

\* ListenAndServe, up to its call of Serve.
ListenAndServe(bindOk) ==
    /\ mainPc = "idle"
    /\ binds + reconstructs < MaxAcquire
    /\ LET r == InitListenerResult(bindOk)
       IN  /\ InitListenerEffect(r)
           /\ lastErr' = r.err
           /\ mainPc' = IF r.err = "nil" THEN "serve" ELSE "idle"
    /\ UNCHANGED << tlsListener, serveErr, served, routerPc >>
    /\ UNCHANGED << sigVars, engineVars, spawnVars, constVars, arrived,
                    published >>

ListenAndServeTLS_AcquireFirst(certOk, bindOk) ==
    /\ mainPc = "idle"
    /\ binds + reconstructs < MaxAcquire
    /\ LET r == InitListenerResult(bindOk)
       IN  /\ InitListenerEffect(r)
           /\ IF r.err # "nil"
              THEN /\ lastErr' = r.err
                   /\ UNCHANGED << tlsListener, mainPc >>
              ELSE IF ~certOk
                   THEN /\ lastErr' = "LoadX509KeyPairError"
                        /\ UNCHANGED << tlsListener, mainPc >>
                   ELSE /\ lastErr' = "nil"
                        /\ tlsListener' = TRUE
                        /\ mainPc' = "serve"
    /\ UNCHANGED << serveErr, served, routerPc >>
    /\ UNCHANGED << sigVars, engineVars, spawnVars, constVars, arrived,
                    published >>

\* ListenAndServeTLS, up to its call of Serve.
ListenAndServeTLS(certOk, bindOk) ==
    /\ mainPc = "idle"
    /\ binds + reconstructs < MaxAcquire
    /\ IF ~certOk
       THEN /\ lastErr' = "LoadX509KeyPairError"
            /\ UNCHANGED << acqVars, mainPc >>
       ELSE LET r == InitListenerResult(bindOk)
            IN  /\ InitListenerEffect(r)
                /\ lastErr' = r.err
                /\ tlsListener' = (r.err = "nil")
                /\ mainPc' = IF r.err = "nil" THEN "serve" ELSE "idle"
    /\ UNCHANGED << serveErr, served, routerPc >>
    /\ UNCHANGED << sigVars, engineVars, spawnVars, constVars, arrived,
                    published >>

\* ------------------------------------------------------------ Serve loop
\* A panic in the handleSignals goroutine ends the whole process.
Alive == routerPc # "panicked"

\* Serve: go srv.handleSignals()
ServeGo ==
    /\ mainPc = "serve"
    /\ mainPc' = "engine"
    /\ routerPc' = "notify"
    /\ UNCHANGED << lastErr, serveErr, served >>
    /\ UNCHANGED << acqVars, sigVars, engineVars, spawnVars, constVars,
                    arrived, published >>

\* Serve: the listener it hands to srv.Server.Serve
ActiveListener == IF tlsListener THEN "tls" ELSE "plain"

ServeEnter_NoShutdownCheck ==
    /\ Alive
    /\ mainPc = "engine"
    /\ served' = ActiveListener
    /\ mainPc' = "accepting"
    /\ UNCHANGED << serveErr, listener >>
    /\ UNCHANGED << lastErr, tlsListener, binds, reconstructs, routerPc >>
    /\ UNCHANGED << sigVars, engineVars, spawnVars, constVars, arrived,
                    published >>

\* Serve calls srv.Server.Serve.  After Shutdown the engine returns
\* ErrServerClosed at once; in every case it closes the listener it was
\* given when it returns.
ServeEnter ==
    /\ Alive
    /\ mainPc = "engine"
    /\ served' = ActiveListener
    /\ IF inShutdown
       THEN /\ mainPc' = "waitDone"
            /\ serveErr' = "ErrServerClosed"
            /\ listener' = [listener EXCEPT !.open = FALSE]
       ELSE /\ mainPc' = "accepting"
            /\ UNCHANGED << serveErr, listener >>
    /\ UNCHANGED << lastErr, tlsListener, binds, reconstructs, routerPc >>
    /\ UNCHANGED << sigVars, engineVars, spawnVars, constVars, arrived,
                    published >>

CanAccept_IgnoreShutdown == mainPc = "accepting"

\* The engine accepts only on an open listener of a server not shut down.
CanAccept == mainPc = "accepting" /\ listener.open /\ ~inShutdown

\* srv.Server.Serve accepts a connection and serves it.
Accept ==
    /\ Alive
    /\ CanAccept
    /\ nextConn <= MaxConns
    /\ conns' = conns \cup { nextConn }
    /\ nextConn' = nextConn + 1
    /\ UNCHANGED << inShutdown, lnerr, routerPc >>
    /\ UNCHANGED << mainVars, acqVars, sigVars, spawnVars, constVars, arrived,
                    published >>

\* srv.Server.Serve returns an unrecoverable accept error.
AcceptError ==
    /\ Alive
    /\ mainPc = "accepting"
    /\ listener.open
    /\ ~inShutdown
    /\ mainPc' = "waitDone"
    /\ serveErr' = "AcceptError"
    /\ listener' = [listener EXCEPT !.open = FALSE]
    /\ UNCHANGED << lastErr, served, tlsListener, binds, reconstructs,
                    routerPc >>
    /\ UNCHANGED << sigVars, engineVars, spawnVars, constVars, arrived,
                    published >>

\* srv.Server.Serve returns ErrServerClosed: Shutdown closed its listener.
ServeClosed ==
    /\ Alive
    /\ mainPc = "accepting"
    /\ ~listener.open
    /\ inShutdown
    /\ mainPc' = "waitDone"
    /\ serveErr' = "ErrServerClosed"
    /\ UNCHANGED << lastErr, served, routerPc >>
    /\ UNCHANGED << acqVars, sigVars, engineVars, spawnVars, constVars,
                    arrived, published >>

\* A connection's request completes.
ConnFinish(c) ==
    /\ Alive
    /\ c \in conns
    /\ conns' = conns \ { c }
    /\ UNCHANGED << inShutdown, lnerr, nextConn, routerPc >>
    /\ UNCHANGED << mainVars, acqVars, sigVars, spawnVars, constVars, arrived,
                    published >>

ServeReturn_SkipWaitOnError ==
    /\ mainPc = "waitDone"
    /\ \/ /\ routerPc = "publish"
          /\ routerPc' = "wait"
          /\ published' = published + 1
       \/ /\ serveErr = "AcceptError"
          /\ UNCHANGED << routerPc, published >>
    /\ mainPc' = "returned"
    /\ UNCHANGED << lastErr, serveErr, served >>
    /\ UNCHANGED << acqVars, sigVars, engineVars, spawnVars, constVars, arrived >>

ServeReturn_ReceiveAgain ==
    /\ mainPc \in { "waitDone", "returned" }
    /\ routerPc = "publish"
    /\ mainPc' = "returned"
    /\ routerPc' = "wait"
    /\ published' = published + 1
    /\ UNCHANGED << lastErr, serveErr, served >>
    /\ UNCHANGED << acqVars, sigVars, engineVars, spawnVars, constVars, arrived >>

\* Serve: <-srv.shutdownChan meets shutdownHTTPServer's srv.shutdownChan <- true
\* (the channel is unbuffered: send and receive complete together), then
\* Serve returns err.
ServeReturn ==
    /\ mainPc = "waitDone"
    /\ routerPc = "publish"
    /\ mainPc' = "returned"
    /\ routerPc' = "wait"
    /\ published' = published + 1
    /\ UNCHANGED << lastErr, serveErr, served >>
    /\ UNCHANGED << acqVars, sigVars, engineVars, spawnVars, constVars, arrived >>

\* --------------------------------------------------------- signal router
\* handleSignals: signal.Notify
Notify ==
    /\ routerPc = "notify"
    /\ routerPc' = "wait"
    /\ UNCHANGED << mainVars, acqVars, sigVars, engineVars, spawnVars,
                    constVars, arrived, published >>

Dispatch_ShutdownFirst(s) == "shutdown"

Dispatch_QuitOnly(s) == IF s = "SIGQUIT" THEN "shutdown" ELSE "getFd"

\* handleSignals: the switch on sig
Dispatch(s) == IF s \in ShutdownSignals THEN "shutdown" ELSE "getFd"

\* handleSignals: sig = <-srv.signalChan, then the switch.  The channel is
\* unbuffered, so the runtime hands over a signal only while the goroutine
\* is waiting in the receive.
Receive(s) ==
    /\ routerPc = "wait"
    /\ arrived < MaxSignals
    /\ arrived' = arrived + 1
    /\ sig' = s
    /\ spawnResult' = "none"
    /\ shutCalls' = 0
    /\ routerPc' = Dispatch(s)
    /\ UNCHANGED << mainVars, acqVars, engineVars, spawnVars, constVars,
                    published >>

\* A signal sent while handleSignals is not in the receive: the runtime's
\* send on the unbuffered channel does not block, the signal is discarded.
Drop(s) ==
    /\ routerPc \in { "shutdown", "drain", "publish", "getFd", "buildEnv",
                      "startProcess" }
    /\ arrived < MaxSignals
    /\ arrived' = arrived + 1
    /\ UNCHANGED << mainVars, acqVars, sigVars, engineVars, spawnVars,
                    constVars, routerPc, published >>

\* ---------------------------------------------------- shutdownHTTPServer
\* shutdownHTTPServer calls srv.Shutdown: the engine is marked shut down and
\* closes the listener Serve is accepting on (through the TLS wrapper when
\* there is one); closing can fail.  A listener closed before keeps its first
\* result; without a listener in Serve there is nothing to close.
ShutdownBegin(closeOk) ==
    /\ routerPc = "shutdown"
    /\ routerPc' = "drain"
    /\ shutCalls' = shutCalls + 1
    /\ inShutdown' = TRUE
    /\ IF mainPc = "accepting"
       THEN IF listener.open
            THEN /\ listener' = [listener EXCEPT !.open = FALSE]
                 /\ lnerr' = IF closeOk THEN "nil" ELSE "CloseError"
            ELSE UNCHANGED << listener, lnerr >>
       ELSE /\ lnerr' = "nil"
            /\ UNCHANGED listener
    /\ UNCHANGED << tlsListener, binds, reconstructs, sig, spawnResult, conns,
                    nextConn >>
    /\ UNCHANGED << mainVars, spawnVars, constVars, arrived, published >>

ShutdownDrained_NoPublish ==
    /\ routerPc = "drain"
    /\ conns = {}
    /\ lnerr = "nil"
    /\ routerPc' = "wait"
    /\ UNCHANGED << mainVars, acqVars, sigVars, engineVars, spawnVars,
                    constVars, arrived, published >>

\* srv.Shutdown returns nil once no connection is in flight;
\* shutdownHTTPServer goes on to srv.shutdownChan <- true.
ShutdownDrained ==
    /\ routerPc = "drain"
    /\ conns = {}
    /\ lnerr = "nil"
    /\ routerPc' = "publish"
    /\ UNCHANGED << mainVars, acqVars, sigVars, engineVars, spawnVars,
                    constVars, arrived, published >>

ShutdownFailed_PublishAnyway ==
    /\ routerPc = "drain"
    /\ conns = {}
    /\ lnerr # "nil"
    /\ routerPc' = "publish"
    /\ UNCHANGED << mainVars, acqVars, sigVars, engineVars, spawnVars,
                    constVars, arrived, published >>

\* srv.Shutdown returns the close error once no connection is in flight;
\* shutdownHTTPServer logs it and returns to the loop.
ShutdownFailed ==
    /\ routerPc = "drain"
    /\ conns = {}
    /\ lnerr # "nil"
    /\ routerPc' = "wait"
    /\ UNCHANGED << mainVars, acqVars, sigVars, engineVars, spawnVars,
                    constVars, arrived, published >>

\* ------------------------------------------------------- startNewProcess
\* getTCPListenerFd: srv.listener.(*net.TCPListener) panics on a listener
\* of another type.
GetFdPanic ==
    /\ routerPc = "getFd"
    /\ listener.kind # "tcp"
    /\ routerPc' = "panicked"
    /\ UNCHANGED << mainVars, acqVars, sigVars, engineVars, spawnVars,
                    constVars, arrived, published >>

\* getTCPListenerFd: File() fails on a closed listener; startNewProcess
\* returns the error and handleSignals logs it.
GetFdError ==
    /\ routerPc = "getFd"
    /\ listener.kind = "tcp"
    /\ ~listener.open
    /\ spawnResult' = "fail"
    /\ routerPc' = "wait"
    /\ UNCHANGED << sig, shutCalls >>
    /\ UNCHANGED << mainVars, acqVars, engineVars, spawnVars, constVars,
                    arrived, published >>

\* getTCPListenerFd: File() duplicates the descriptor and Fd() returns its
\* number; the os.File owning it is unreachable from here on.
GetFdOk ==
    /\ routerPc = "getFd"
    /\ listener.kind = "tcp"
    /\ listener.open
    /\ listenerFd' = "open"
    /\ routerPc' = "buildEnv"
    /\ UNCHANGED << envs, successors >>
    /\ UNCHANGED << mainVars, acqVars, sigVars, engineVars, constVars,
                    arrived, published >>

\* The garbage collector finalizes the unreachable os.File, which closes
\* the duplicated descriptor while startNewProcess still holds its number.
Finalize ==
    /\ routerPc \in { "buildEnv", "startProcess" }
    /\ listenerFd = "open"
    /\ listenerFd' = "closed"
    /\ UNCHANGED << envs, successors, routerPc >>
    /\ UNCHANGED << mainVars, acqVars, sigVars, engineVars, constVars,
                    arrived, published >>

\* startNewProcess: the loop over os.Environ() and the append.
BuildEnv ==
    /\ routerPc = "buildEnv"
    /\ envs' = BuildEnvs(Environ(env))
    /\ routerPc' = "startProcess"
    /\ UNCHANGED << listenerFd, successors >>
    /\ UNCHANGED << mainVars, acqVars, sigVars, engineVars, constVars,
                    arrived, published >>

\* execSpec.Files: what the successor finds in each descriptor slot.  A
\* number whose descriptor was closed refers to whatever was opened since.
Files == << "stdin", "stdout", "stderr",
            IF listenerFd = "open" THEN "listener" ELSE "other" >>

StartProcessFail_ShutdownAnyway ==
    /\ routerPc = "startProcess"
    /\ spawnResult' = "fail"
    /\ listenerFd' = "none"
    /\ routerPc' = "shutdown"
    /\ UNCHANGED << sig, shutCalls, envs, successors >>
    /\ UNCHANGED << mainVars, acqVars, engineVars, constVars, arrived,
                    published >>

\* syscall.StartProcess fails; startNewProcess returns the error and
\* handleSignals logs it.
StartProcessFail ==
    /\ routerPc = "startProcess"
    /\ spawnResult' = "fail"
    /\ listenerFd' = "none"
    /\ routerPc' = "wait"
    /\ UNCHANGED << sig, shutCalls, envs, successors >>
    /\ UNCHANGED << mainVars, acqVars, engineVars, constVars, arrived,
                    published >>

StartProcessOk_NoShutdown ==
    /\ routerPc = "startProcess"
    /\ successors' = Append(successors, [env |-> envs, files |-> Files])
    /\ spawnResult' = "ok"
    /\ listenerFd' = "none"
    /\ routerPc' = "wait"
    /\ UNCHANGED << sig, shutCalls, envs >>
    /\ UNCHANGED << mainVars, acqVars, engineVars, constVars, arrived,
                    published >>

\* syscall.StartProcess succeeds; handleSignals goes on to
\* shutdownHTTPServer.
StartProcessOk ==
    /\ routerPc = "startProcess"
    /\ successors' = Append(successors, [env |-> envs, files |-> Files])
    /\ spawnResult' = "ok"
    /\ listenerFd' = "none"
    /\ routerPc' = "shutdown"
    /\ UNCHANGED << sig, shutCalls, envs >>
    /\ UNCHANGED << mainVars, acqVars, engineVars, constVars, arrived,
                    published >>

\* ---------------------------------------------------------- specification
Next ==
    \/ \E b \in BOOLEAN : InitListener(b)
    \/ \E b \in BOOLEAN : ListenAndServe(b)
    \/ \E c \in BOOLEAN, b \in BOOLEAN : ListenAndServeTLS(c, b)
    \/ ServeGo
    \/ ServeEnter
    \/ Accept
    \/ AcceptError
    \/ ServeClosed
    \/ \E c \in 1..MaxConns : ConnFinish(c)
    \/ ServeReturn
    \/ Notify
    \/ \E s \in Signals : Receive(s)
    \/ \E s \in Signals : Drop(s)
    \/ \E ok \in BOOLEAN : ShutdownBegin(ok)
    \/ ShutdownDrained
    \/ ShutdownFailed
    \/ GetFdPanic
    \/ GetFdError
    \/ GetFdOk
    \/ Finalize
    \/ BuildEnv
    \/ StartProcessFail
    \/ StartProcessOk

Spec == Init /\ [][Next]_vars

\* The Go scheduler runs every runnable goroutine, and requests in flight
\* are taken to complete; signals, accept errors and collections are not
\* forced to happen.
Fairness ==
    /\ WF_vars(ServeGo)
    /\ WF_vars(ServeEnter)
    /\ WF_vars(ServeClosed)
    /\ WF_vars(ServeReturn)
    /\ WF_vars(Notify)
    /\ WF_vars(\E ok \in BOOLEAN : ShutdownBegin(ok))
    /\ WF_vars(ShutdownDrained)
    /\ WF_vars(ShutdownFailed)
    /\ WF_vars(GetFdPanic \/ GetFdError \/ GetFdOk)
    /\ WF_vars(BuildEnv)
    /\ WF_vars(StartProcessFail \/ StartProcessOk)
    /\ WF_vars(\E c \in 1..MaxConns : ConnFinish(c))

FairSpec == Init /\ [][Next]_vars /\ Fairness

\* ------------------------------------------------------------ properties
SpawnPcs    == { "getFd", "buildEnv", "startProcess" }
ShutdownPcs == { "shutdown", "drain", "publish" }

\* The successor found the listening socket in the well-known slot.
HoldsSocket(p) == p.files[GRACEFUL_LISTENER_FD + 1] = "listener"

SuccessorHolds == \E i \in 1..Len(successors) : HoldsSocket(successors[i])

RestartInProgress == sig \in RestartSignals /\ routerPc \in SpawnPcs \cup ShutdownPcs

\* C1: while the router handles a hangup-like/terminate-like signal, from
\* its receipt until the shutdown it leads to is over, the parent or a
\* successor it spawned holds the listening socket open.
C1_SocketAlwaysHeld == RestartInProgress => (listener.open \/ SuccessorHolds)

\* What a failed restart attempt must leave as it was.
ParentUnmodified ==
    /\ listener' = listener
    /\ tlsListener' = tlsListener
    /\ mainPc' = mainPc
    /\ inShutdown' = inShutdown
    /\ conns' = conns
    /\ published' = published
    /\ shutCalls' = shutCalls
    /\ successors' = successors

\* C2: a restart attempt that fails leaves the parent unmodified: the step
\* that fails, and the steps of startNewProcess before it, change neither the
\* listener, nor the accept loop's position, nor the engine's shutdown flag,
\* nor the completion signal, and the failing step puts the router back in
\* its wait for the next signal.
C2_FailedRestartLeavesParent ==
    [][ /\ (spawnResult' = "fail" /\ spawnResult # "fail")
            => (ParentUnmodified /\ routerPc' = "wait")
        /\ (routerPc \in SpawnPcs /\ routerPc' \in SpawnPcs /\ routerPc' # routerPc)
            => ParentUnmodified ]_vars

C2_Witness ==
    /\ spawnResult = "fail"
    /\ routerPc = "wait"
    /\ listener.open
    /\ mainPc = "accepting"
    /\ ~inShutdown
    /\ published = 0

\* C3: for a hangup-like/terminate-like signal the spawn step comes first
\* and is over before the shutdown step begins, and the shutdown step is
\* invoked if and only if the spawn succeeded.
C3_SpawnBeforeShutdown ==
    sig \in RestartSignals =>
        /\ routerPc \in SpawnPcs => (spawnResult = "none" /\ shutCalls = 0)
        /\ routerPc = "panicked" => (spawnResult = "none" /\ shutCalls = 0)
        /\ routerPc = "shutdown" => (spawnResult = "ok" /\ shutCalls = 0)
        /\ routerPc \in { "drain", "publish" } => (spawnResult = "ok" /\ shutCalls = 1)
        /\ routerPc = "wait" => \/ (spawnResult = "ok" /\ shutCalls = 1)
                                \/ (spawnResult = "fail" /\ shutCalls = 0)

C3_Witness ==
    /\ sig \in RestartSignals
    /\ spawnResult = "ok"
    /\ shutCalls = 1
    /\ routerPc = "wait"

\* C4: for a quit-like/interrupt-like signal the shutdown is invoked
\* directly and no spawn is attempted.
C4_ShutdownWithoutSpawn ==
    sig \in ShutdownSignals =>
        /\ spawnResult = "none"
        /\ routerPc \in ShutdownPcs \cup { "wait" }
        /\ routerPc = "shutdown" => shutCalls = 0
        /\ routerPc # "shutdown" => shutCalls = 1

C4_Witness ==
    /\ sig = "SIGQUIT"
    /\ shutCalls = 1
    /\ published = 1
    /\ successors = <<>>

\* C5: Serve has returned only if the completion signal was published, by
\* a shutdown whose drain succeeded, whatever ended the accept loop.
C5_ReturnAfterPublish ==
    mainPc = "returned" => (published >= 1 /\ inShutdown /\ lnerr = "nil")

C5_Witness == mainPc = "returned" /\ serveErr = "AcceptError"

\* C6: once a shutdown has begun no connection is accepted, and Serve has
\* returned only when no connection is in flight any more.
C6_NoAcceptAfterShutdown ==
    /\ [][ inShutdown => (conns' \subseteq conns /\ nextConn' = nextConn) ]_vars
    /\ [](mainPc = "returned" => conns = {})

C6_Witness ==
    /\ sig = "SIGINT"
    /\ routerPc = "drain"
    /\ conns # {}
    /\ mainPc = "waitDone"

\* C7: under fair scheduling, with requests in flight completing, every
\* call of Shutdown ends, and once its drain has succeeded Serve returns;
\* also when the shutdown ran before the main path called the engine.
C7_ServeEventuallyReturns ==
    /\ (routerPc = "shutdown") ~> (routerPc \in { "publish", "wait" })
    /\ (routerPc = "publish") ~> (mainPc = "returned")

C7_Witness == routerPc = "publish" /\ mainPc = "engine"

\* C8: every successor's environment holds exactly one entry for the
\* graceful-mode marker variable.
C8_ExactlyOneMarker ==
    \A i \in 1..Len(successors) :
        Cardinality(KeyIndexes(successors[i].env, GRACEFUL_ENVIRON_KEY)) = 1

MarkerAbsent(e) == KeyIndexes(e, GRACEFUL_ENVIRON_KEY) = {}

\* C9: the marker seen at construction alone chooses the acquisition path:
\* without a marker entry only fresh binds are made, with a marker of
\* non-empty value only reconstructions from the descriptor slot.
C9_PathFromMarker ==
    /\ MarkerAbsent(env) =>
           (reconstructs = 0 /\ (listener # Nil => binds >= 1))
    /\ Getenv(env, GRACEFUL_ENVIRON_KEY) # "" =>
           (binds = 0 /\ (listener # Nil => reconstructs >= 1))

C9_Witness ==
    /\ Getenv(env, GRACEFUL_ENVIRON_KEY) = "2"
    /\ reconstructs = 1
    /\ mainPc = "accepting"

\* C10: the completion signal is published at most once, and exactly once
\* when a shutdown whose drain succeeded has returned, however often the
\* shutdown is invoked; a restart signal whose spawn succeeded invokes the
\* shutdown exactly once.
C10_PublishedOnce ==
    /\ published <= 1
    /\ (routerPc = "wait" /\ shutCalls >= 1 /\ lnerr = "nil") => published = 1
    /\ (sig \in RestartSignals /\ spawnResult = "ok") =>
           /\ shutCalls <= 1
           /\ routerPc \in { "drain", "publish", "wait" } => shutCalls = 1

C10_Witness ==
    /\ published = 1
    /\ mainPc = "returned"
    /\ routerPc = "publish"

AcquireErrors == { "NilAddr", "ListenError", "FileListenerError" }

\* C11: a public call that returned an error has not begun to serve: the
\* signal router is not started, the engine was not called, nothing waits
\* on the completion signal; after a failed acquisition no listener is set,
\* and a call that fails on the certificate pair acquires no listener.
C11_ErrorBeforeServing ==
    /\ [](lastErr \in AcquireErrors \cup { "LoadX509KeyPairError" } =>
            /\ mainPc = "idle"
            /\ routerPc = "none"
            /\ served = "none"
            /\ serveErr = "none"
            /\ nextConn = 1
            /\ published = 0)
    /\ [](lastErr \in AcquireErrors => listener = Nil)
    /\ [][ lastErr' = "LoadX509KeyPairError" =>
             /\ listener' = listener
             /\ tlsListener' = tlsListener
             /\ binds' = binds
             /\ reconstructs' = reconstructs ]_vars

C11_Witness ==
    /\ lastErr = "LoadX509KeyPairError"
    /\ listener = Nil
    /\ binds = 1

\* Everything of the process but the count of signals sent.
ProcessState ==
    << listener, tlsListener, mainPc, lastErr, serveErr, served, binds,
       reconstructs, routerPc, sig, spawnResult, shutCalls, inShutdown, lnerr,
       conns, nextConn, published, listenerFd, envs, successors >>

\* C12: a signal sent while the router is busy is not lost: it is kept by
\* the process (queued) for the router to take afterwards, so sending it
\* changes the state of the process.
C12_BusySignalKept ==
    [][ (arrived' = arrived + 1 /\ routerPc # "wait")
            => ProcessState' # ProcessState ]_vars

\* C13: the router is never blocked for good in the send on the completion
\* channel: it is not in the send once Serve has taken the completion
\* signal and returned, when nothing will receive any more.
C13_PublishNeverBlocks == ~(routerPc = "publish" /\ mainPc = "returned")

\* C14: once a shutdown has been dispatched the router consumes no further
\* signal: it never leaves its wait again.
C14_RouterTerminal ==
    [][ (inShutdown /\ routerPc = "wait") => routerPc' = "wait" ]_vars

\* C15: a Shutdown call that returns an error publishes nothing and does
\* not let Serve return; while the last drain's result is an error Serve
\* has not returned.
C15_DrainErrorBlocksServe ==
    /\ [][ (routerPc = "drain" /\ lnerr # "nil") =>
             /\ published' = published
             /\ mainPc' # "returned"
             /\ routerPc' \in { "drain", "wait" } ]_vars
    /\ [](lnerr # "nil" => (mainPc # "returned" /\ routerPc # "publish"))

C15_Witness ==
    /\ lnerr # "nil"
    /\ routerPc = "wait"
    /\ shutCalls = 1
    /\ mainPc = "waitDone"
    /\ published = 0

\* C16: a handoff on a listener that is no TCP listener fails with an
\* error; the process does not crash.
C16_NoCrash == routerPc # "panicked"

\* C17: in graceful mode listener acquisition never fails for an empty
\* address.
C17_NoAddrCheckWhenGraceful == isGraceful => lastErr # "NilAddr"

\* C18: once the listener is set no call binds or reconstructs again and
\* the listener stays the one acquired; an acquisition is tried only while
\* the listener is unset, and sets it exactly when it succeeds.
C18_AcquireOnce ==
    [][ /\ listener # Nil =>
             /\ binds' = binds
             /\ reconstructs' = reconstructs
             /\ listener'.kind = listener.kind
        /\ (listener # Nil /\ mainPc = "idle") => listener' = listener
        /\ (binds' # binds \/ reconstructs' # reconstructs) =>
             /\ listener = Nil
             /\ binds' + reconstructs' = binds + reconstructs + 1
             /\ (listener' # Nil) <=> (lastErr' = "nil") ]_vars

C18_Witness ==
    /\ listener # Nil
    /\ binds = 2
    /\ lastErr = "nil"

\* C19: the engine accepts on the secure listener when there is one and on
\* the plain one otherwise, the wrapping leaves the plain listener in
\* place, and what a successor finds in the descriptor slot is the plain
\* listener's socket.
C19_OneListenerAccepts ==
    /\ served # "none" => served = ActiveListener
    /\ tlsListener => listener # Nil
    /\ \A i \in 1..Len(successors) : HoldsSocket(successors[i])

\* C20: a process spawns at most one successor over its lifetime.
C20_AtMostOneSuccessor == Len(successors) <= 1

C20_Witness ==
    /\ Len(successors) = 1
    /\ lnerr # "nil"
    /\ sig \in RestartSignals
    /\ spawnResult = "fail"
    /\ arrived = 2

====
